---- MODULE Spec2Model ----
(***************************************************************************)
(* Melody timing and oscillator engine of src/main.rs.                     *)
(*                                                                         *)
(* Number representation.  The f32 quantities of the program are kept as   *)
(* exact fixed-point integers:                                             *)
(*   - beats (Note::beats, the prefix sums, the beat position) in units of *)
(*     1/BeatUnit beat.  Every beat position the program produces is a     *)
(*     whole number of beats (current_beat_number divides in u64), and a   *)
(*     prefix sum of at most MaxLen+1 notes is a whole number only when    *)
(*     all its terms are multiples of 0.25, which f32 adds exactly; so the *)
(*     comparisons of beat_to_note come out as in f32.                     *)
(*   - pitch ratios in units of 1/PitchUnit.                               *)
(*   - sample_rate and sample_clock are whole-valued f32; f32_whole rounds  *)
(*     a whole sum as f32 does (exact up to 2^24), the remainder of whole  *)
(*     f32 values is exact.                                                *)
(* u64 products stay far below 2^64 within the bounds.                     *)
(***************************************************************************)
EXTENDS Integers, Sequences, FiniteSets

VARIABLES
    request,     \* SampleRequestOptions owned by the stream callback
    output,      \* the output buffer of the last callback, as the device sees it
    status,      \* "running", or "panicked" once the callback thread unwound
    melody,      \* Melody under a direct pitch_at call
    time,        \* argument time: SECONDS of that call
    bpm,         \* argument bpm: BEATS_PER_MINUTE of that call
    ret,         \* NoCall, or the outcome of that call
    calls,       \* number of direct tick() calls made so far
    buffer_size  \* slots of the buffers the host hands to the data callback

vars == <<request, output, status, melody, time, bpm, ret, calls, buffer_size>>

\* ------------------------------------------------------------------ bounds
MaxLen == 2          \* notes per melody under a direct pitch_at call
MaxTime == 125       \* largest elapsed_seconds passed to pitch_at
MaxBpm == 2          \* largest bpm passed to pitch_at
MaxBuf == 3          \* largest buffer (slots) a host hands to the callback
MaxChannels == 2     \* largest channel count of the device
MaxTickRate == 16    \* largest sample_rate under direct tick() calls
MaxCalls == 40       \* direct tick() calls made

\* --------------------------------------------------------- numeric scales
BeatUnit == 10000
PitchUnit == 10
A_IN_HZ == 440

\* ------------------------------------------------------- Note / ToneLength
ToneLength ==
    {"Four", "FourDot", "Two", "TwoDot", "Full", "FullDot",
     "Half", "HalfDot", "Quarter", "QuarterDot", "Octet"}

Note(pitch, length) == [pitch_relative_to_a |-> pitch, length |-> length]

\* A plausible slip: QuarterDot written as 0.25 + 0.125.
beats_QuarterDotEighth(self) ==
    CASE self.length = "Four"       -> 40000          \* 4.0
      [] self.length = "FourDot"    -> 60000          \* 6.0
      [] self.length = "Two"        -> 20000          \* 2.0
      [] self.length = "TwoDot"     -> 30000          \* 3.0
      [] self.length = "Full"       -> 10000          \* 1.0
      [] self.length = "FullDot"    -> 15000          \* 1.5
      [] self.length = "Half"       -> 5000           \* 0.5
      [] self.length = "HalfDot"    -> 7500           \* 0.75
      [] self.length = "Quarter"    -> 2500           \* 0.25
      [] self.length = "QuarterDot" -> 2500 + 1250    \* 0.25 + 0.125
      [] self.length = "Octet"      -> 125            \* 0.0125

\* In units of 1/BeatUnit beat.
beats(self) ==
    CASE self.length = "Four"       -> 40000          \* 4.0
      [] self.length = "FourDot"    -> 60000          \* 6.0
      [] self.length = "Two"        -> 20000          \* 2.0
      [] self.length = "TwoDot"     -> 30000          \* 3.0
      [] self.length = "Full"       -> 10000          \* 1.0
      [] self.length = "FullDot"    -> 15000          \* 1.5
      [] self.length = "Half"       -> 5000           \* 0.5
      [] self.length = "HalfDot"    -> 7500           \* 0.75
      [] self.length = "Quarter"    -> 2500           \* 0.25
      [] self.length = "QuarterDot" -> 2500 + 125     \* 0.25 + 0.0125
      [] self.length = "Octet"      -> 125            \* 0.0125

\* ------------------------------------------------------------------ Melody
\* A plausible slip: the beat position rounded to the nearest beat.
current_beat_number_rounded(t, b) == ((t * b + 30) \div 60) * BeatUnit

\* (time * bpm as u64 / 60) as f32: the division is u64 division.
current_beat_number(t, b) == ((t * b) \div 60) * BeatUnit

\* .scan(0.0, |last_beat, &x| { *last_beat += x.beats(); Some(*last_beat) })
RECURSIVE scan(_, _)
scan(notes, last_beat) ==
    IF notes = <<>> THEN <<>>
    ELSE LET next_beat == last_beat + beats(Head(notes))
         IN  <<next_beat>> \o scan(Tail(notes), next_beat)

\* A plausible slip: a boundary that is reached does not count yet.
too_early_strict(x, time_in_beat) == x < time_in_beat

\* .map(|&x| x <= time_in_beat)
too_early(x, time_in_beat) == x <= time_in_beat

\* .fold(0, |acc, x| if x { acc + 1 } else { acc })
RECURSIVE fold(_, _, _)
fold(bs, time_in_beat, acc) ==
    IF bs = <<>> THEN acc
    ELSE fold(Tail(bs), time_in_beat,
              IF too_early(Head(bs), time_in_beat) THEN acc + 1 ELSE acc)

beat_to_note(m, time_in_beat) == fold(scan(m, 0), time_in_beat, 0)

NoPitch == -1

\* self.melody[i].pitch_relative_to_a: Vec indexing panics out of bounds.
\* The index is 0-based in the source, sequences are 1-based here.
pitch_at(m, t, b) ==
    LET i == beat_to_note(m, current_beat_number(t, b))
    IN  IF i < Len(m)
        THEN [outcome |-> "ok", index |-> i, pitch |-> m[i + 1].pitch_relative_to_a]
        ELSE [outcome |-> "panic", index |-> i, pitch |-> NoPitch]

\* ------------------------------------------------------- Oscillator state
\* A plausible slip: the clock is never wrapped.
tick_nowrap(o) == [o EXCEPT !.sample_clock = o.sample_clock + 1]

\* f32 holds every whole number up to 2^24.
F32_WHOLE_MAX == 16777216

\* The f32 nearest to the whole number n, ties to the even mantissa
\* (0 <= n < 2^25: above 2^24 the f32 values are the even numbers).
f32_whole(n) ==
    IF n <= F32_WHOLE_MAX \/ n % 2 = 0 THEN n
    ELSE IF (n \div 2) % 2 = 0 THEN n - 1 ELSE n + 1

tick(o) ==
    [o EXCEPT !.sample_clock = f32_whole(o.sample_clock + 1) % o.sample_rate]

\* A plausible slip: the elapsed time taken as sample_clock / 100.
tone_div100(o) ==
    LET time_in_seconds == o.sample_clock \div 100
        p == pitch_at(o.melody, time_in_seconds, 2)
    IN  IF p.outcome = "ok"
        THEN [outcome |-> "ok",
              value |-> [sin_of |-> <<o.sample_clock, p.pitch, A_IN_HZ, o.sample_rate>>]]
        ELSE [outcome |-> "panic", value |-> NoPitch]

\* The sample is sin(sample_clock * pitch * A_IN_HZ * 2 pi / sample_rate); it is
\* kept as the arguments the sine is taken of.
tone(o) ==
    LET time_in_seconds == o.sample_clock \div 1000
        p == pitch_at(o.melody, time_in_seconds, 2)
    IN  IF p.outcome = "ok"
        THEN [outcome |-> "ok",
              value |-> [sin_of |-> <<o.sample_clock, p.pitch, A_IN_HZ, o.sample_rate>>]]
        ELSE [outcome |-> "panic", value |-> NoPitch]

sample_next(o) ==
    LET ticked == tick(o)
    IN  [request |-> ticked, sample |-> tone(ticked)]

\* cpal::Sample::from::<f32>: the stream's sample format T of the f32 value.
from_f32(value) == [T_from |-> value]

\* A slot of a buffer the callback has not written: the sample of nothing.
Unwritten == [T_from |-> [sin_of |-> <<>>]]

Min(a, b) == IF a < b THEN a ELSE b

\* for frame in output.chunks_mut(request.nchannels): the frame starting at slot
\* `start` (1-based) and those after it.  A panic of on_sample unwinds out of the
\* loop: the frames before it stay written, the clock stays ticked.
RECURSIVE on_window_from(_, _, _)
on_window_from(out, o, start) ==
    IF start > Len(out)
    THEN [output |-> out, request |-> o, status |-> "running"]
    ELSE LET r == sample_next(o)
             last == Min(start + o.nchannels - 1, Len(out))
         IN  IF r.sample.outcome = "panic"
             THEN [output |-> out, request |-> r.request, status |-> "panicked"]
             ELSE on_window_from(
                      [i \in 1..Len(out) |->
                          IF start <= i /\ i <= last
                          THEN from_f32(r.sample.value) ELSE out[i]],
                      r.request, last + 1)

on_window(out, o) == on_window_from(out, o, 1)

\* The request stream_make builds: the shipped note and melody, the clock at 0.
stream_make(sample_rate, nchannels) ==
    [sample_rate  |-> sample_rate,
     sample_clock |-> 0,
     nchannels    |-> nchannels,
     note         |-> Note(12, "Full"),
     melody       |-> <<Note(10, "Full"), Note(20, "Full")>>]

\* ---------------------------------------------------------------- inputs
\* Sample rates of the default output config: below, at and above 60000 Hz.
Rates == {44100, 60000, 96000}

NoCall == [outcome |-> "none", index |-> 0, pitch |-> NoPitch]

\* Melodies of 1..MaxLen notes over every ToneLength; the note at 0-based index
\* i has pitch i + 1.0, so the pitch returned tells the note.
Melodies ==
    UNION {{[i \in 1..n |-> Note(i * PitchUnit, ls[i])] : ls \in [1..n -> ToneLength]}
           : n \in 1..MaxLen}

\* ------------------------------------------------ Spec: the running stream
Init ==
    /\ request \in {stream_make(r, c) : r \in Rates, c \in 1..MaxChannels}
    /\ buffer_size \in 1..MaxBuf
    /\ output = <<>>
    /\ status = "running"
    /\ melody = <<Note(10, "Full")>>
    /\ time = 0
    /\ bpm = 0
    /\ ret = NoCall
    /\ calls = 0

\* The data callback of build_output_stream: the host hands a buffer of
\* buffer_size slots to on_window.  The stream is built with the default
\* buffer size (config.into()), a period the host fixes when it opens the stream.
OnWindow ==
    /\ status = "running"
    /\ LET r == on_window([i \in 1..buffer_size |-> Unwritten], request)
       IN  /\ request' = r.request
           /\ output' = r.output
           /\ status' = r.status
    /\ UNCHANGED <<melody, time, bpm, ret, calls, buffer_size>>

Next == OnWindow

Spec == Init /\ [][Next]_vars

\* ------------------------------------- SpecMelody: pitch_at called directly
InitMelody ==
    /\ melody \in Melodies
    /\ time \in 0..MaxTime
    /\ bpm \in 0..MaxBpm
    /\ ret = NoCall
    /\ request = stream_make(44100, 1)
    /\ buffer_size = 1
    /\ output = <<>>
    /\ status = "running"
    /\ calls = 0

PitchAt ==
    /\ ret = NoCall
    /\ ret' = pitch_at(melody, time, bpm)
    /\ UNCHANGED <<request, output, status, melody, time, bpm, calls, buffer_size>>

NextMelody == PitchAt

SpecMelody == InitMelody /\ [][NextMelody]_vars

\* ----------------------------------------- SpecTick: tick() called directly
InitTick ==
    /\ request \in {stream_make(r, 1) : r \in 1..MaxTickRate}
    /\ calls = 0
    /\ buffer_size = 1
    /\ output = <<>>
    /\ status = "running"
    /\ melody = <<Note(10, "Full")>>
    /\ time = 0
    /\ bpm = 0
    /\ ret = NoCall

Tick ==
    /\ calls < MaxCalls
    /\ request' = tick(request)
    /\ calls' = calls + 1
    /\ UNCHANGED <<output, status, melody, time, bpm, ret, buffer_size>>

NextTick == Tick

SpecTick == InitTick /\ [][NextTick]_vars

\* ================================================================ claims
\* The prefix sum cum[i] of the claims, 1-based here: the beats of the first
\* i notes of m.
RECURSIVE Cum(_, _)
Cum(m, i) == IF i = 0 THEN 0 ELSE Cum(m, i - 1) + beats(m[i])

Called == ret # NoCall

\* The beat position handed to beat_to_note by the call.
BeatPassed == current_beat_number(time, bpm)

\* C1: pitch_at is total: for every non-empty melody, elapsed_seconds and bpm the
\* index resolved by beat_to_note is below the melody length, so the lookup
\* never indexes out of bounds.
C1_PitchAtTotal ==
    Called => ret.index < Len(melody) /\ ret.outcome = "ok"

\* C2: the index beat_to_note returns is the number of prefix sums <= b; it is
\* the smallest index whose prefix sum exceeds b (the melody length when none
\* does), and on a boundary cum[i] the result is i + 1.
C2_CountOfBoundaries ==
    Called =>
        LET b == BeatPassed
            n == Len(melody)
        IN  /\ ret.index = Cardinality({i \in 1..n : Cum(melody, i) <= b})
            /\ ret.index < n => b < Cum(melody, ret.index + 1)
            /\ \A j \in 1..ret.index : Cum(melody, j) <= b
            /\ \A i \in 1..n : b = Cum(melody, i) => ret.index = i

\* A call whose beat position lies exactly on the first boundary of a two-note
\* melody and resolves to the second note.
C2_Witness ==
    /\ Called
    /\ Len(melody) = 2
    /\ BeatPassed = Cum(melody, 1)
    /\ ret.index = 1
    /\ ret.pitch = melody[2].pitch_relative_to_a

\* C3: for a melody of exactly one Full note, pitch_at(t, bpm) returns that
\* note's pitch for every t >= 0 and every bpm > 0.
C3_SingleFullNote ==
    (Called /\ Len(melody) = 1 /\ melody[1].length = "Full" /\ bpm > 0) =>
        ret.outcome = "ok" /\ ret.pitch = melody[1].pitch_relative_to_a

\* C4: for a two-note melody at bpm = 1 whose first note lasts B whole beats,
\* pitch_at(t, 1) is the first note's pitch while t/60 < B and the second note's
\* pitch while B <= t/60 < B + beats(second note); [Full, Full] gives note 0 at
\* t = 0 and note 1 at t = 61, [Two, Full] gives note 0 at t = 61.
C4_TwoNotesAtBpm1 ==
    (Called /\ Len(melody) = 2 /\ bpm = 1 /\ beats(melody[1]) % BeatUnit = 0) =>
        LET first == beats(melody[1])
            second == beats(melody[2])
        IN  /\ time * BeatUnit < 60 * first =>
                  /\ ret.outcome = "ok"
                  /\ ret.index = 0
                  /\ ret.pitch = melody[1].pitch_relative_to_a
            /\ (60 * first <= time * BeatUnit
                  /\ time * BeatUnit < 60 * (first + second)) =>
                  /\ ret.outcome = "ok"
                  /\ ret.index = 1
                  /\ ret.pitch = melody[2].pitch_relative_to_a
            /\ (melody[1].length = "Full" /\ melody[2].length = "Full" /\ time = 0)
                  => ret.index = 0
            /\ (melody[1].length = "Full" /\ melody[2].length = "Full" /\ time = 61)
                  => ret.index = 1
            /\ (melody[1].length = "Two" /\ melody[2].length = "Full" /\ time = 61)
                  => ret.index = 0

\* [Two, Full] at bpm = 1 past its 2-beat boundary: the second note sounds.
C4_Witness ==
    /\ Called
    /\ Len(melody) = 2
    /\ melody[1].length = "Two"
    /\ melody[2].length = "Full"
    /\ bpm = 1
    /\ time >= 120
    /\ ret.index = 1
    /\ ret.pitch = melody[2].pitch_relative_to_a

\* C5: starting from sample_clock = 0, for every whole sample_rate > 0 the
\* clock stays in [0, sample_rate) after any number of tick() calls, is 0 after
\* exactly sample_rate calls and is not 0 after fewer (and more than 0) calls.
C5_TickWraps ==
    LET rate == request.sample_rate
        clock == request.sample_clock
    IN  /\ 0 <= clock /\ clock < rate
        /\ calls = rate => clock = 0
        /\ (0 < calls /\ calls < rate) => clock # 0
        /\ clock = calls % rate

\* The clock is back at 0 after sample_rate > 1 calls.
C5_Witness ==
    /\ request.sample_rate > 1
    /\ calls = request.sample_rate
    /\ request.sample_clock = 0

\* Frames of a buffer of len slots with c channels: ceil(len / c).
Frames(len, c) == (len + c - 1) \div c

\* C6: on_window invokes the sample function once per frame of the buffer
\* (ceil(L/c) times, each a tick() then a tone() on the state the previous frame
\* left), writes the frame's one value into every slot of the frame, and leaves
\* sample_clock advanced by the number of frames modulo sample_rate.
C6_WindowFrames ==
    [][LET c == request.nchannels
           rate == request.sample_rate
           n == Frames(buffer_size, c)
       IN  /\ status' = "running"
           /\ Len(output') = buffer_size
           /\ request'.sample_clock = (request.sample_clock + n) % rate
           /\ \A i \in 1..buffer_size :
                 LET k == ((i - 1) \div c) + 1
                     ticked == [request EXCEPT
                                  !.sample_clock = (request.sample_clock + k) % rate]
                 IN  /\ output'[i] # Unwritten
                     /\ output'[i] = output'[(k - 1) * c + 1]
                     /\ output'[i].T_from.sin_of[1] = ticked.sample_clock
      ]_vars

\* The multiplier of each ToneLength, in units of 1/10000 beat, as specified.
ExpectedBeats(length) ==
    CASE length = "Full"       -> 10000
      [] length = "FullDot"    -> 15000
      [] length = "Two"        -> 20000
      [] length = "TwoDot"     -> 30000
      [] length = "Four"       -> 40000
      [] length = "FourDot"    -> 60000
      [] length = "Half"       -> 5000
      [] length = "HalfDot"    -> 7500
      [] length = "Quarter"    -> 2500
      [] length = "QuarterDot" -> 2625
      [] length = "Octet"      -> 125

\* C7: Note::beats maps each of the 11 ToneLength variants to its positive
\* fixed multiplier (in units of 1/10000 beat).
C7_BeatsTable ==
    /\ Cardinality(ToneLength) = 11
    /\ BeatUnit = 10000
    /\ \A i \in 1..Len(melody) :
          /\ melody[i].length \in ToneLength
          /\ beats(melody[i]) = ExpectedBeats(melody[i].length)
          /\ beats(melody[i]) > 0

\* A call on a melody holding the two durations built from 0.0125.
C7_Witness ==
    /\ Called
    /\ Len(melody) = 2
    /\ melody[1].length = "QuarterDot"
    /\ melody[2].length = "Octet"

Dotted == {"FourDot", "TwoDot", "FullDot", "HalfDot", "QuarterDot"}

Base(length) ==
    CASE length = "FourDot"    -> "Four"
      [] length = "TwoDot"     -> "Two"
      [] length = "FullDot"    -> "Full"
      [] length = "HalfDot"    -> "Half"
      [] length = "QuarterDot" -> "Quarter"

\* C8: every dotted duration is its base duration extended by half:
\* beats(XDot) = 1.5 * beats(X).
C8_DottedIsBaseAndHalf ==
    Called =>
        \A i \in 1..Len(melody) :
            melody[i].length \in Dotted =>
                2 * beats(melody[i])
                    = 3 * beats([melody[i] EXCEPT !.length = Base(melody[i].length)])

\* The 0-based indexes i with t * b / 60 < cum[i] in exact rational arithmetic.
AfterExactBeat(m, t, b) ==
    {i \in 0..(Len(m) - 1) : t * b * BeatUnit < 60 * Cum(m, i + 1)}

\* C9: pitch_at resolves the note against t * bpm / 60 with its fractional
\* part: whenever the result is in range, the note returned is the one at the
\* smallest index i with (t * bpm) / 60 < cum[i] in exact rational arithmetic.
C9_FractionalBeat ==
    (Called /\ ret.outcome = "ok" /\ AfterExactBeat(melody, time, bpm) # {}) =>
        LET exact == CHOOSE i \in AfterExactBeat(melody, time, bpm) :
                        \A j \in AfterExactBeat(melody, time, bpm) : i <= j
        IN  /\ ret.index = exact
            /\ ret.pitch = melody[exact + 1].pitch_relative_to_a

\* The clock and the pitch a written slot's sample was taken at.
ClockOf(slot) == slot.T_from.sin_of[1]
PitchOf(slot) == slot.T_from.sin_of[2]

\* C10: in the shipped configuration, after any number of sample_next calls
\* from sample_clock = 0, tone() uses note 0 (pitch 1.0) whenever
\* sample_clock < 30000 and note 1 (pitch 2.0) whenever
\* 30000 <= sample_clock < 60000; hence for every sample_rate <= 60000 the
\* melody lookup stays in range on every sample.
C10_ShippedNotes ==
    /\ \A i \in 1..Len(output) :
          output[i] # Unwritten =>
              /\ ClockOf(output[i]) < 30000 =>
                    PitchOf(output[i]) = request.melody[1].pitch_relative_to_a
              /\ (30000 <= ClockOf(output[i]) /\ ClockOf(output[i]) < 60000) =>
                    PitchOf(output[i]) = request.melody[2].pitch_relative_to_a
    /\ (status = "running" /\ output # <<>>) =>
          ClockOf(output[Len(output)]) = request.sample_clock
    /\ status = "panicked" => request.sample_clock >= 60000
    /\ request.sample_rate <= 60000 => status = "running"

\* At 44100 Hz the clock is past 30000 and the sample is taken of note 1.
C10_Witness ==
    /\ request.sample_rate = 44100
    /\ status = "running"
    /\ request.sample_clock >= 30000
    /\ output # <<>>
    /\ ClockOf(output[Len(output)]) = request.sample_clock
    /\ PitchOf(output[Len(output)]) = 20

====
